---- MODULE Spec2Model ----
(***************************************************************************)
(* A model of tastypie.api.Api (src/tastypie/api.py): the registry that    *)
(* ties Resources together under an api_name, its canonical map, the URL   *)
(* configuration it produces and the top_level discovery view.             *)
(*                                                                         *)
(* Python values are modelled by strings: None is "None", a resource       *)
(* object is named by an identifier ("r1", ...).  A dict is a function     *)
(* whose DOMAIN is the set of its keys.                                    *)
(***************************************************************************)
EXTENDS Naturals, Sequences, FiniteSets

\* ---------------------------------------------------------------- bounds

\* The number of state-changing calls (register, unregister, urls) made on the
\* Api in one behaviour.
MaxCalls == 3

\* -------------------------------------------------------------- universe

None == "None"

\* getattr() finds no attribute at all.
Missing == "<no attribute>"

\* The values the api_name of an Api takes (the constructor's default first).
ApiNames == {"v1", "v2"}

\* Resource names in ascending order, as Python's sorted() orders these strings.
NameOrder == <<"entries", "notes", "users">>

Names == {NameOrder[i] : i \in 1..Len(NameOrder)}

\* The resource objects handed to the Api, and the resource_name attribute of
\* each: two resources share a name, one has resource_name = None and one has
\* no resource_name attribute.
Resources == {"r1", "r2", "r3", "r4", "r5", "r6"}

ResourceNameAttr ==
    [r \in Resources |->
        CASE r = "r1" -> "entries"
          [] r = "r2" -> "entries"
          [] r = "r3" -> "notes"
          [] r = "r4" -> "users"
          [] r = "r5" -> None
          [] r = "r6" -> Missing]

VARIABLES
    api_name,           \* self.api_name
    registry,           \* self._registry: resource_name -> resource
    canonicals,         \* self._canonicals: resource_name -> resource
    resource_api_name,  \* the api_name attribute of every resource object
    hooks,              \* the calls made to _add_resource / _remove_resource
    calls,              \* the register / unregister / urls calls made so far
    ret                 \* the outcome of the last call

vars == <<api_name, registry, canonicals, resource_api_name, hooks, calls, ret>>

\* ------------------------------------------------------------ dict helpers

EmptyDict == [n \in {} |-> None]

DictSet(d, k, v) == [n \in DOMAIN d \cup {k} |-> IF n = k THEN v ELSE d[n]]

DictDel(d, k) == [n \in DOMAIN d \ {k} |-> d[n]]

\* getattr(resource, 'resource_name', None)
GetResourceName(resource) ==
    IF ResourceNameAttr[resource] = Missing THEN None ELSE ResourceNameAttr[resource]

\* ------------------------------------------------------------ outcomes

Return(op, args, value) == [op |-> op, args |-> args, exc |-> None, value |-> value]

Raise(op, args, exc) == [op |-> op, args |-> args, exc |-> exc, value |-> None]

RegisterCall(resource, canonical) ==
    [op |-> "register", resource |-> resource, canonical |-> canonical, name |-> None]

UnregisterCall(resource_name) ==
    [op |-> "unregister", resource |-> None, canonical |-> FALSE, name |-> resource_name]

UrlsCall == [op |-> "urls", resource |-> None, canonical |-> FALSE, name |-> None]

\* ------------------------------------------------------------ __init__

Init ==
    /\ api_name \in ApiNames
    /\ registry = EmptyDict
    /\ canonicals = EmptyDict
    /\ resource_api_name = [r \in Resources |-> None]
    /\ hooks = <<>>
    /\ calls = <<>>
    /\ ret = Return("__init__", <<>>, None)

\* ------------------------------------------------------------ register

\* self._canonicals after register: only `canonical is True` sets the entry
\* (replacing an existing one, with a warning).
CanonicalsAfterRegisterAlways(can, resource_name, resource, canonical) ==
    DictSet(can, resource_name, resource)

CanonicalsAfterRegister(can, resource_name, resource, canonical) ==
    IF canonical = TRUE THEN DictSet(can, resource_name, resource) ELSE can

AddResourceCall(resource, canonical) ==
    [hook |-> "_add_resource", resource |-> resource, canonical |-> canonical]

RemoveResourceCall(resource) ==
    [hook |-> "_remove_resource", resource |-> resource, canonical |-> FALSE]

RegisterHookFirst(resource, canonical) ==
    LET resource_name == GetResourceName(resource) IN
    /\ Len(calls) < MaxCalls
    /\ calls' = Append(calls, RegisterCall(resource, canonical))
    /\ hooks' = Append(hooks, AddResourceCall(resource, canonical))
    /\ IF resource_name = None
       THEN /\ ret' = Raise("register", <<resource, canonical>>, "ImproperlyConfigured")
            /\ UNCHANGED <<registry, canonicals>>
       ELSE /\ registry' = DictSet(registry, resource_name, resource)
            /\ canonicals' = CanonicalsAfterRegister(canonicals, resource_name, resource, canonical)
            /\ ret' = Return("register", <<resource, canonical>>, None)
    /\ UNCHANGED <<api_name, resource_api_name>>

Register(resource, canonical) ==
    LET resource_name == GetResourceName(resource) IN
    /\ Len(calls) < MaxCalls
    /\ calls' = Append(calls, RegisterCall(resource, canonical))
    /\ IF resource_name = None
       THEN /\ ret' = Raise("register", <<resource, canonical>>, "ImproperlyConfigured")
            /\ UNCHANGED <<registry, canonicals, hooks>>
       ELSE /\ registry' = DictSet(registry, resource_name, resource)
            /\ canonicals' = CanonicalsAfterRegister(canonicals, resource_name, resource, canonical)
            /\ hooks' = Append(hooks, AddResourceCall(resource, canonical))
            /\ ret' = Return("register", <<resource, canonical>>, None)
    /\ UNCHANGED <<api_name, resource_api_name>>

\* ------------------------------------------------------------ unregister

UnregisterKeepsCanonical(resource_name) ==
    /\ Len(calls) < MaxCalls
    /\ calls' = Append(calls, UnregisterCall(resource_name))
    /\ IF resource_name \in DOMAIN registry
       THEN /\ hooks' = Append(hooks, RemoveResourceCall(registry[resource_name]))
            /\ registry' = DictDel(registry, resource_name)
       ELSE UNCHANGED <<hooks, registry>>
    /\ UNCHANGED canonicals
    /\ ret' = Return("unregister", <<resource_name>>, None)
    /\ UNCHANGED <<api_name, resource_api_name>>

Unregister(resource_name) ==
    /\ Len(calls) < MaxCalls
    /\ calls' = Append(calls, UnregisterCall(resource_name))
    /\ IF resource_name \in DOMAIN registry
       THEN /\ hooks' = Append(hooks, RemoveResourceCall(registry[resource_name]))
            /\ registry' = DictDel(registry, resource_name)
       ELSE UNCHANGED <<hooks, registry>>
    /\ IF resource_name \in DOMAIN canonicals
       THEN canonicals' = DictDel(canonicals, resource_name)
       ELSE UNCHANGED canonicals
    /\ ret' = Return("unregister", <<resource_name>>, None)
    /\ UNCHANGED <<api_name, resource_api_name>>

\* ------------------------------------------------------------ canonical_resource_for

CanonicalLookupInRegistry(resource_name) ==
    IF resource_name \in DOMAIN registry
    THEN Return("canonical_resource_for", <<resource_name>>, registry[resource_name])
    ELSE Raise("canonical_resource_for", <<resource_name>>, "NotRegistered")

CanonicalLookup(resource_name) ==
    IF resource_name \in DOMAIN canonicals
    THEN Return("canonical_resource_for", <<resource_name>>, canonicals[resource_name])
    ELSE Raise("canonical_resource_for", <<resource_name>>, "NotRegistered")

CanonicalResourceFor(resource_name) ==
    /\ ret' = CanonicalLookup(resource_name)
    /\ UNCHANGED <<api_name, registry, canonicals, resource_api_name, hooks, calls>>

\* ------------------------------------------------------------ sorted()

Rank(n) == CHOOSE i \in 1..Len(NameOrder) : NameOrder[i] = n

Least(S) == CHOOSE n \in S : \A m \in S : Rank(n) <= Rank(m)

Greatest(S) == CHOOSE n \in S : \A m \in S : Rank(n) >= Rank(m)

RECURSIVE SortedDescending(_)
SortedDescending(S) ==
    IF S = {} THEN <<>> ELSE <<Greatest(S)>> \o SortedDescending(S \ {Greatest(S)})

RECURSIVE Sorted(_)
Sorted(S) == IF S = {} THEN <<>> ELSE <<Least(S)>> \o Sorted(S \ {Least(S)})

\* ------------------------------------------------------------ urls

\* url(r"^(?P<api_name>%s)/$" % api_name, wrap_view('top_level'),
\*     name="api_%s_top_level" % api_name)
TopLevelPattern ==
    [kind |-> "url", prefix |-> api_name, target |-> "top_level",
     name |-> <<"api", api_name, "top_level">>]

\* (r"^(?P<api_name>%s)/" % api_name, include(resource.urls))
IncludePattern(resource) ==
    [kind |-> "include", prefix |-> api_name, target |-> resource, name |-> <<>>]

PatternList ==
    LET order == Sorted(DOMAIN registry) IN
    <<TopLevelPattern>> \o [i \in 1..Len(order) |-> IncludePattern(registry[order[i]])]

Urls ==
    /\ Len(calls) < MaxCalls
    /\ calls' = Append(calls, UrlsCall)
    /\ resource_api_name' =
         [r \in Resources |->
            IF \E n \in DOMAIN registry : registry[n] = r
            THEN api_name ELSE resource_api_name[r]]
    /\ ret' = Return("urls", <<>>, PatternList)
    /\ UNCHANGED <<api_name, registry, canonicals, hooks>>

\* ------------------------------------------------------------ top_level

\* The view's response is the serialized available_resources dict; the
\* serializer, the format negotiation and HttpResponse belong to the host
\* framework, so the response is modelled by the dict it carries.
\* reverse("api_dispatch_list", kwargs={'api_name': .., 'resource_name': ..})
Reverse(view, an, resource_name) ==
    [view |-> view, api_name |-> an, resource_name |-> resource_name]

AvailableResourcesOwnName(an) ==
    [n \in DOMAIN registry |-> Reverse("api_dispatch_list", api_name, n)]

AvailableResources(an) ==
    LET effective == IF an = None THEN api_name ELSE an IN
    [n \in DOMAIN registry |-> Reverse("api_dispatch_list", effective, n)]

TopLevel(an) ==
    /\ ret' = Return("top_level", <<an>>, AvailableResources(an))
    /\ UNCHANGED <<api_name, registry, canonicals, resource_api_name, hooks, calls>>

\* ------------------------------------------------------------ specification

Next ==
    \/ \E resource \in Resources, canonical \in BOOLEAN : Register(resource, canonical)
    \/ \E resource_name \in Names : Unregister(resource_name)
    \/ \E resource_name \in Names : CanonicalResourceFor(resource_name)
    \/ Urls
    \/ \E an \in ApiNames \cup {None} : TopLevel(an)

Spec == Init /\ [][Next]_vars

\* ------------------------------------------------------------ the call history

Last(seq) == seq[Len(seq)]

\* The step appended a call of this op to the history.
Called(op) == Len(calls') = Len(calls) + 1 /\ Last(calls').op = op

\* Call i of history h registers a resource under `name` (a call refused with
\* ImproperlyConfigured names nothing).
IsRegister(h, i, name) ==
    h[i].op = "register" /\ ResourceNameAttr[h[i].resource] = name

IsUnregister(h, i, name) == h[i].op = "unregister" /\ h[i].name = name

\* The register(resource, canonical=True) calls for `name` with no later
\* canonical register and no later unregister of `name`: at most one call.
CanonicalCallFor(h, name) ==
    {i \in 1..Len(h) :
        /\ IsRegister(h, i, name) /\ h[i].canonical
        /\ \A j \in (i+1)..Len(h) :
              ~IsUnregister(h, j, name) /\ ~(IsRegister(h, j, name) /\ h[j].canonical)}

\* The names registered (canonical or not) and not unregistered since.
RegisteredNames(h) ==
    {n \in Names :
        \E i \in 1..Len(h) :
            IsRegister(h, i, n) /\ \A j \in (i+1)..Len(h) : ~IsUnregister(h, j, n)}

\* The resource of the most recent register call for a registered name.
RegisteredResource(h, n) ==
    LET i == CHOOSE k \in 1..Len(h) :
                IsRegister(h, k, n) /\ \A j \in (k+1)..Len(h) : ~IsRegister(h, j, n)
    IN h[i].resource

\* ------------------------------------------------------------ C1

\* C1: canonical_resource_for(name) returns the resource of the most recent
\* register(resource, canonical=True) call for name that no unregister(name)
\* followed; register calls with canonical=False in between change nothing.
C1_CanonicalIsLastCanonicalRegister ==
    ret.op = "canonical_resource_for" =>
        \A i \in CanonicalCallFor(calls, ret.args[1]) :
            ret.exc = None /\ ret.value = calls[i].resource

\* A canonical register of a name, then a non-canonical register of another
\* resource under the same name, then the lookup.
C1_Witness ==
    /\ ret.op = "canonical_resource_for"
    /\ ret.exc = None
    /\ \E i \in CanonicalCallFor(calls, ret.args[1]) :
          /\ ret.value = calls[i].resource
          /\ \E j \in (i+1)..Len(calls) :
                /\ IsRegister(calls, j, ret.args[1])
                /\ ~calls[j].canonical
                /\ calls[j].resource # calls[i].resource

\* ------------------------------------------------------------ C2

\* C2: canonical_resource_for(name) raises NotRegistered exactly when no
\* resource is canonical for name (also when name is registered only with
\* canonical=False), and leaves the registry and the canonical map unchanged
\* whether it returns or raises.
C2_NotRegisteredIffNoCanonical ==
    [][ret'.op = "canonical_resource_for" =>
          /\ (ret'.exc = "NotRegistered") <=> (CanonicalCallFor(calls', ret'.args[1]) = {})
          /\ ret'.exc \in {None, "NotRegistered"}
          /\ registry' = registry
          /\ canonicals' = canonicals]_vars

\* The lookup raises for a name that is in the registry, registered with
\* canonical=False only.
C2_Witness ==
    /\ ret.op = "canonical_resource_for"
    /\ ret.exc = "NotRegistered"
    /\ ret.args[1] \in DOMAIN registry
    /\ canonicals # EmptyDict

\* ------------------------------------------------------------ C3

\* C3: register of a resource whose resource_name is missing or None raises
\* ImproperlyConfigured, changes neither the registry nor the canonical map
\* and does not call _add_resource.
C3_RegisterWithoutNameHasNoEffect ==
    [][(Called("register") /\ ResourceNameAttr[Last(calls').resource] \in {None, Missing}) =>
          /\ ret'.exc = "ImproperlyConfigured"
          /\ registry' = registry
          /\ canonicals' = canonicals
          /\ hooks' = hooks]_vars

\* A register of the resource without a resource_name attribute was refused
\* on an Api that holds resources.
C3_Witness ==
    /\ ret.op = "register"
    /\ ret.exc = "ImproperlyConfigured"
    /\ ResourceNameAttr[ret.args[1]] = Missing
    /\ registry # EmptyDict
    /\ canonicals # EmptyDict

\* ------------------------------------------------------------ C4

SameEntry(d, e, m) ==
    /\ (m \in DOMAIN d) <=> (m \in DOMAIN e)
    /\ m \in DOMAIN d => d[m] = e[m]

\* C4: unregister(name) removes name from the registry and the canonical map,
\* leaves every other name's entries unchanged, raises nothing, changes no
\* state and calls no _remove_resource when name is not registered, and a
\* second unregister(name) right after the first changes nothing.
C4_UnregisterRemovesAndIsIdempotent ==
    [][Called("unregister") =>
          LET name == Last(calls').name IN
          /\ ret'.exc = None
          /\ name \notin DOMAIN registry'
          /\ name \notin DOMAIN canonicals'
          /\ \A m \in Names \ {name} :
                SameEntry(registry, registry', m) /\ SameEntry(canonicals, canonicals', m)
          /\ name \notin DOMAIN registry =>
                registry' = registry /\ canonicals' = canonicals /\ hooks' = hooks
          /\ (Len(calls) > 0 /\ Last(calls) = Last(calls')) =>
                registry' = registry /\ canonicals' = canonicals /\ hooks' = hooks]_vars

\* A canonical resource was registered, unregistered, and unregistered again.
C4_Witness ==
    /\ Len(calls) = 3
    /\ calls[1].op = "register" /\ calls[1].canonical
    /\ ResourceNameAttr[calls[1].resource] \in Names
    /\ calls[2] = UnregisterCall(ResourceNameAttr[calls[1].resource])
    /\ calls[3] = calls[2]
    /\ ret.op = "unregister"
    /\ registry = EmptyDict
    /\ canonicals = EmptyDict
    /\ Len(hooks) = 2

\* ------------------------------------------------------------ C5

\* C5: top_level lists exactly the names currently registered (canonical or
\* not), each with the URI built from that name and from the api_name
\* argument, the Api's own api_name when the argument is None, and changes
\* neither the registry nor the canonical map.
C5_TopLevelListsRegistry ==
    [][ret'.op = "top_level" =>
          LET an == ret'.args[1]
              effective == IF an = None THEN api_name' ELSE an
          IN
          /\ ret'.exc = None
          /\ DOMAIN ret'.value = RegisteredNames(calls')
          /\ DOMAIN ret'.value = DOMAIN registry'
          /\ \A n \in DOMAIN ret'.value :
                ret'.value[n] = [view |-> "api_dispatch_list", api_name |-> effective,
                                 resource_name |-> n]
          /\ registry' = registry
          /\ canonicals' = canonicals]_vars

\* The view was asked under another api_name while two names are registered,
\* not all canonical, and a name has been unregistered.
C5_Witness ==
    /\ ret.op = "top_level"
    /\ ret.args[1] \notin {None, api_name}
    /\ Cardinality(DOMAIN ret.value) = 2
    /\ DOMAIN canonicals # DOMAIN registry
    /\ \A n \in DOMAIN ret.value : ret.value[n].api_name = ret.args[1]

\* ------------------------------------------------------------ C6

\* C6: urls returns the top-level pattern first, then one included pattern set
\* per registered name in ascending name order (1 + number of registered names
\* entries), all under the Api's api_name; it sets api_name on every
\* registered resource and changes neither the registry nor the canonical map.
C6_UrlsListsRegistrySorted ==
    [][Called("urls") =>
          LET patterns == ret'.value
              included(i) == ResourceNameAttr[patterns[i].target]
          IN
          /\ ret'.op = "urls" /\ ret'.exc = None
          /\ Len(patterns) = 1 + Cardinality(RegisteredNames(calls'))
          /\ patterns[1].kind = "url" /\ patterns[1].target = "top_level"
          /\ \A i \in 1..Len(patterns) : patterns[i].prefix = api_name'
          /\ \A i \in 2..Len(patterns) :
                /\ patterns[i].kind = "include"
                /\ included(i) \in RegisteredNames(calls')
                /\ patterns[i].target = RegisteredResource(calls', included(i))
          /\ \A i, j \in 2..Len(patterns) :
                i < j => \E a, b \in 1..Len(NameOrder) :
                            /\ a < b
                            /\ NameOrder[a] = included(i)
                            /\ NameOrder[b] = included(j)
          /\ \A n \in DOMAIN registry' : resource_api_name'[registry'[n]] = api_name'
          /\ registry' = registry
          /\ canonicals' = canonicals]_vars

\* urls was evaluated with two names registered in descending order, one of
\* them not canonical.
C6_Witness ==
    /\ Len(calls) = 3
    /\ ret.op = "urls"
    /\ Len(ret.value) = 3
    /\ calls[1].op = "register" /\ calls[2].op = "register"
    /\ ResourceNameAttr[calls[1].resource] = "users"
    /\ ResourceNameAttr[calls[2].resource] = "entries"
    /\ ~calls[2].canonical
    /\ ret.value[2].target = calls[2].resource
    /\ ret.value[3].target = calls[1].resource
    /\ resource_api_name[calls[1].resource] = api_name

====
